---- MODULE Spec2Model ----
(***************************************************************************)
(* Model of main_menu (src/src/main.rs): the event loop of main(), the     *)
(* per-screen key handlers, the command runner (run_capture,               *)
(* run_interactive) and the terminal-mode calls around them.               *)
(*                                                                         *)
(* Text is a sequence of fragments (strings); a typed character is a       *)
(* one-character fragment, a literal of the source is one fragment.        *)
(***************************************************************************)
EXTENDS Integers, Sequences, FiniteSets, TLC

VARIABLES
    pc,            \* position of main(): "enter","draw","poll","read","leave","exited"
    screen,        \* main.rs:161  let mut screen
    selected,      \* main.rs:162  let mut selected
    message,       \* main.rs:163  let mut message
    input,         \* main.rs:164  let mut input
    input_origin,  \* main.rs:165  let mut input_origin
    event,         \* main.rs:226  the event returned by event::read()
    from,          \* main.rs:228  tag of the screen the last event was matched on
    rawMode,       \* terminal: raw input enabled
    altScreen,     \* terminal: alternate screen entered
    mouseCapture,  \* terminal: mouse capture enabled
    cursorHidden,  \* terminal: cursor hidden by the frame drawing
    entered,       \* lines 155-159 all succeeded
    leaveRan,      \* line 418 was reached
    result,        \* what main() returned: "running", "Ok", or the failed call
    trace          \* terminal-mode calls and subprocesses of the last handled event

vars == <<pc, screen, selected, message, input, input_origin, event, from, rawMode,
          altScreen, mouseCapture, cursorHidden, entered, leaveRan, result, trace>>

----------------------------------------------------------------------------
(* Bounds *)

MaxInput == 3

----------------------------------------------------------------------------
(* Text helpers *)

Lit(s) == <<s>>

Whitespace == {" ", "\t", "\n"}

\* characters the keyboard can deliver as KeyCode::Char
TypedChars == {"a", " ", "q"}

RECURSIVE TrimStart(_)
TrimStart(s) ==
    IF s = <<>> THEN <<>>
    ELSE IF Head(s) \in Whitespace THEN TrimStart(Tail(s)) ELSE s

RECURSIVE TrimEnd(_)
TrimEnd(s) ==
    IF s = <<>> THEN <<>>
    ELSE IF s[Len(s)] \in Whitespace THEN TrimEnd(SubSeq(s, 1, Len(s) - 1)) ELSE s

\* str::trim replaced by no trimming at all
Trim_None(s) == s

\* str::trim
Trim(s) == TrimEnd(TrimStart(s))

\* String::pop on the input buffer (no-op when empty)
Pop(s) == IF s = <<>> THEN <<>> ELSE SubSeq(s, 1, Len(s) - 1)

\* the escapes {:?} applies inside a string
EscapeDebug(t) ==
    [i \in DOMAIN t |->
        CASE t[i] = "\t" -> "\\t"
          [] t[i] = "\n" -> "\\n"
          [] t[i] = "\"" -> "\\\""
          [] t[i] = "table {{.ID}}\t{{.Names}}\t{{.Status}}" ->
                "table {{.ID}}\\t{{.Names}}\\t{{.Status}}"
          [] OTHER -> t[i]]

\* {:?} of a &str
Quote(t) == <<"\"">> \o EscapeDebug(t) \o <<"\"">>

RECURSIVE JoinQuoted(_)
JoinQuoted(args) ==
    IF args = <<>> THEN <<>>
    ELSE IF Len(args) = 1 THEN Quote(args[1])
    ELSE Quote(args[1]) \o <<", ">> \o JoinQuoted(Tail(args))

\* {:?} of a &[&str]
DebugArgs(args) == <<"[">> \o JoinQuoted(args) \o <<"]">>

----------------------------------------------------------------------------
(* Screens and events *)

Origins == {"ChangeVT", "PodmanStart", "PodmanStop", "PodmanShell"}

Scr(tag) == [tag |-> tag, prompt |-> "", origin |-> "None"]

InputScr(prompt, origin) == [tag |-> "Input", prompt |-> prompt, origin |-> origin]

Key(code) == [type |-> "Key", code |-> code, ch |-> ""]

CharKey(c) == [type |-> "Key", code |-> "Char", ch |-> c]

NoEvent == [type |-> "None", code |-> "", ch |-> ""]

KeyEvents ==
    {Key(c) : c \in {"Esc", "Enter", "Up", "Down", "Backspace", "Tab"}}
        \cup {CharKey(c) : c \in TypedChars}

OtherEvents ==
    {[type |-> t, code |-> "", ch |-> ""] : t \in {"Mouse", "Resize", "Focus"}}

----------------------------------------------------------------------------
(* Trace of external calls *)

\* the outcome field of a call that is not a captured command
NoOutcome ==
    [spawned |-> FALSE, success |-> FALSE, stdout |-> <<>>, stderr |-> <<>>,
     status |-> "", err |-> ""]

Ev(op, argv, ok, res) ==
    [op |-> op, argv |-> argv, ok |-> ok, res |-> res, out |-> NoOutcome]

IsSpawn(e) == e.op \in {"capture", "interactive"}

Spawns(tr) == SelectSeq(tr, IsSpawn)

----------------------------------------------------------------------------
(* Command runner *)

\* what Command::output() can produce for a captured command
CaptureOutcomes ==
    {[spawned |-> FALSE, success |-> FALSE, stdout |-> <<>>, stderr |-> <<>>,
      status |-> "", err |-> "No such file or directory (os error 2)"]}
    \cup {[spawned |-> TRUE, success |-> TRUE, stdout |-> so, stderr |-> <<>>,
           status |-> "exit status: 0", err |-> ""] : so \in {<<>>, <<"o">>}}
    \cup {[spawned |-> TRUE, success |-> FALSE, stdout |-> <<>>, stderr |-> se,
           status |-> "exit status: 1", err |-> ""] : se \in {<<>>, <<" ">>, <<"e">>}}

\* run_capture that never looks at the exit status
run_capture_IgnoreStatus(cmd, args, o) ==
    IF o.spawned
    THEN o.stdout
    ELSE <<"Failed to run ">> \o cmd \o <<": ", o.err>>

\* fn run_capture: the returned String
run_capture(cmd, args, o) ==
    IF o.spawned
    THEN IF o.success
         THEN o.stdout
         ELSE IF Trim(o.stderr) = <<>>
              THEN <<"Command ">> \o Quote(cmd) \o <<" ">> \o DebugArgs(args)
                       \o <<" failed: ", o.status>>
              ELSE o.stderr
    ELSE <<"Failed to run ">> \o cmd \o <<": ", o.err>>

\* the call of run_capture as it appears in the trace
CaptureEv(cmd, args, o) ==
    [Ev("capture", <<cmd>> \o args, o.spawned /\ o.success, run_capture(cmd, args, o))
        EXCEPT !.out = o]

\* what the environment can answer to one run_interactive call
InteractiveOutcomes ==
    [suspend : BOOLEAN, child : {"spawn_err", "exit_ok", "exit_fail"}, resume : BOOLEAN]

SuspendErr == <<"disable_raw_mode: Inappropriate ioctl for device (os error 25)">>

ResumeErr == <<"enable_raw_mode: Inappropriate ioctl for device (os error 25)">>

SpawnErr == <<"No such file or directory (os error 2)">>

Ok == [ok |-> TRUE, err |-> <<>>]

Err(e) == [ok |-> FALSE, err |-> e]

\* run_interactive that returns on a spawn failure before enable_raw_mode
run_interactive_EarlyReturn(cmd, args, raw, o) ==
    IF ~o.suspend
    THEN [result |-> Err(SuspendErr), raw |-> raw,
          events |-> <<Ev("disable_raw", <<>>, FALSE, SuspendErr)>>]
    ELSE IF o.child = "spawn_err"
    THEN [result |-> Err(SpawnErr), raw |-> FALSE,
          events |-> <<Ev("disable_raw", <<>>, TRUE, <<>>),
                       Ev("interactive", <<cmd>> \o args, FALSE, SpawnErr)>>]
    ELSE IF ~o.resume
    THEN [result |-> Err(ResumeErr), raw |-> FALSE,
          events |-> <<Ev("disable_raw", <<>>, TRUE, <<>>),
                       Ev("interactive", <<cmd>> \o args, o.child = "exit_ok", <<>>),
                       Ev("enable_raw", <<>>, FALSE, ResumeErr)>>]
    ELSE [result |-> Ok, raw |-> TRUE,
          events |-> <<Ev("disable_raw", <<>>, TRUE, <<>>),
                       Ev("interactive", <<cmd>> \o args, o.child = "exit_ok", <<>>),
                       Ev("enable_raw", <<>>, TRUE, <<>>)>>]

\* fn run_interactive: result, raw mode afterwards, and the calls made
run_interactive(cmd, args, raw, o) ==
    IF ~o.suspend
    THEN [result |-> Err(SuspendErr), raw |-> raw,
          events |-> <<Ev("disable_raw", <<>>, FALSE, SuspendErr)>>]
    ELSE LET status == IF o.child = "spawn_err" THEN Err(SpawnErr) ELSE Ok
             spawn  == Ev("interactive", <<cmd>> \o args, o.child = "exit_ok",
                          CASE o.child = "spawn_err" -> SpawnErr
                            [] o.child = "exit_ok" -> Lit("exit status: 0")
                            [] o.child = "exit_fail" -> Lit("exit status: 1"))
         IN  IF ~o.resume
             THEN [result |-> Err(ResumeErr), raw |-> FALSE,
                   events |-> <<Ev("disable_raw", <<>>, TRUE, <<>>), spawn,
                                Ev("enable_raw", <<>>, FALSE, ResumeErr)>>]
             ELSE [result |-> status, raw |-> TRUE,
                   events |-> <<Ev("disable_raw", <<>>, TRUE, <<>>), spawn,
                                Ev("enable_raw", <<>>, TRUE, <<>>)>>]

ShellArgs(id, sh) == <<Lit("exec"), Lit("-it"), id, Lit(sh)>>

\* podman_shell that tries /bin/bash a second time when it failed
podman_shell_RetryBash(id, raw, o1, o2) ==
    LET r1 == run_interactive(Lit("podman"), ShellArgs(id, "/bin/sh"), raw, o1)
        r2 == run_interactive(Lit("podman"), ShellArgs(id, "/bin/bash"), r1.raw, o2)
        r3 == run_interactive(Lit("podman"), ShellArgs(id, "/bin/bash"), r2.raw, o2)
    IN  IF r1.result.ok
        THEN r1
        ELSE IF r2.result.ok
        THEN [result |-> r2.result, raw |-> r2.raw, events |-> r1.events \o r2.events]
        ELSE [result |-> r3.result, raw |-> r3.raw,
              events |-> r1.events \o r2.events \o r3.events]

\* fn podman_shell
podman_shell(id, raw, o1, o2) ==
    LET r1 == run_interactive(Lit("podman"), ShellArgs(id, "/bin/sh"), raw, o1)
        r2 == run_interactive(Lit("podman"), ShellArgs(id, "/bin/bash"), r1.raw, o2)
    IN  IF r1.result.ok
        THEN r1
        ELSE [result |-> r2.result, raw |-> r2.raw, events |-> r1.events \o r2.events]

\* chvt that tests the argument for emptiness without trimming it
chvt_EmptyOnly(vt, o) ==
    IF vt = <<>>
    THEN [msg |-> Lit("empty VT"), events |-> <<>>]
    ELSE [msg |-> run_capture(Lit("sudo"), <<Lit("chvt"), vt>>, o),
          events |-> <<CaptureEv(Lit("sudo"), <<Lit("chvt"), vt>>, o)>>]

\* fn chvt: the returned String and the calls made
chvt(vt, o) ==
    IF Trim(vt) = <<>>
    THEN [msg |-> Lit("empty VT"), events |-> <<>>]
    ELSE [msg |-> run_capture(Lit("sudo"), <<Lit("chvt"), vt>>, o),
          events |-> <<CaptureEv(Lit("sudo"), <<Lit("chvt"), vt>>, o)>>]

PsArgs == <<Lit("ps"), Lit("-a"), Lit("--format"),
            Lit("table {{.ID}}\t{{.Names}}\t{{.Status}}")>>

\* podman_ps that runs the command a second time
podman_ps_Twice(o) ==
    [msg |-> run_capture(Lit("podman"), PsArgs, o),
     events |-> <<CaptureEv(Lit("podman"), PsArgs, o), CaptureEv(Lit("podman"), PsArgs, o)>>]

\* fn podman_ps
podman_ps(o) ==
    [msg |-> run_capture(Lit("podman"), PsArgs, o),
     events |-> <<CaptureEv(Lit("podman"), PsArgs, o)>>]

\* fn podman_start
podman_start(id, o) ==
    [msg |-> run_capture(Lit("podman"), <<Lit("start"), id>>, o),
     events |-> <<CaptureEv(Lit("podman"), <<Lit("start"), id>>, o)>>]

\* podman_stop that runs "podman start"
podman_stop_AsStart(id, o) ==
    [msg |-> run_capture(Lit("podman"), <<Lit("start"), id>>, o),
     events |-> <<CaptureEv(Lit("podman"), <<Lit("start"), id>>, o)>>]

\* fn podman_stop
podman_stop(id, o) ==
    [msg |-> run_capture(Lit("podman"), <<Lit("stop"), id>>, o),
     events |-> <<CaptureEv(Lit("podman"), <<Lit("stop"), id>>, o)>>]

----------------------------------------------------------------------------
(* Key handlers of the event loop (the match on &mut screen) *)

\* number of items drawn for a list screen
ItemCount(tag) ==
    CASE tag = "Main" -> 3
      [] tag = "VTMenu" -> 3
      [] tag = "Desktops" -> 3
      [] tag = "Podman" -> 5
      [] OTHER -> 0

ListScreens == {"Main", "VTMenu", "Desktops", "Podman"}

\* the locals of main() after one handled event; next is "draw" or "leave" (break)
Set(sc, sel, msg, inp, org, raw, tr, next) ==
    /\ screen' = sc
    /\ selected' = sel
    /\ message' = msg
    /\ input' = inp
    /\ input_origin' = org
    /\ rawMode' = raw
    /\ trace' = tr
    /\ pc' = next

Stay == Set(screen, selected, message, input, input_origin, rawMode, <<>>, "draw")

\* a quit that goes on with the loop
Break_Continue == Set(screen, selected, message, input, input_origin, rawMode, <<>>, "draw")

Break == Set(screen, selected, message, input, input_origin, rawMode, <<>>, "leave")

\* navigation that forgets "selected = 0"
Goto_KeepSelected(tag) ==
    Set(Scr(tag), selected, message, input, input_origin, rawMode, <<>>, "draw")

Goto(tag) == Set(Scr(tag), 0, message, input, input_origin, rawMode, <<>>, "draw")

Select(i) == Set(screen, i, message, input, input_origin, rawMode, <<>>, "draw")

\* a prompt opened without input.clear()
Prompt_NoClear(text, origin) ==
    Set(InputScr(text, origin), selected, message, input, origin, rawMode, <<>>, "draw")

Prompt(text, origin) ==
    Set(InputScr(text, origin), selected, message, <<>>, origin, rawMode, <<>>, "draw")

\* a command result stored without "screen = Screen::Output"
ShowOutput_SameScreen(r) ==
    Set(screen, selected, r.msg, input, input_origin, rawMode, r.events, "draw")

ShowOutput(r) ==
    Set(Scr("Output"), selected, r.msg, input, input_origin, rawMode, r.events, "draw")

\* Screen::Main
OnMain(k) ==
    CASE k = CharKey("q") \/ k = Key("Esc") -> Break
      [] k = Key("Down") -> Select((selected + 1) % 3)
      [] k = Key("Up") -> Select((selected + 3 - 1) % 3)
      [] k = Key("Enter") ->
            CASE selected = 0 -> Goto("VTMenu")
              [] selected = 1 -> Goto("Podman")
              [] selected = 2 -> Break
              [] OTHER -> Stay
      [] OTHER -> Stay

\* Screen::VTMenu
OnVTMenu(k) ==
    CASE k = Key("Esc") -> Goto("Main")
      [] k = Key("Down") -> Select((selected + 1) % 3)
      [] k = Key("Up") -> Select((selected + 3 - 1) % 3)
      [] k = Key("Enter") ->
            CASE selected = 0 -> Prompt("Enter VT number (e.g. 1..12)", "ChangeVT")
              [] selected = 1 -> Goto("Desktops")
              [] selected = 2 -> Goto("Main")
              [] OTHER -> Stay
      [] OTHER -> Stay

\* Screen::Desktops
OnDesktops(k) ==
    CASE k = Key("Esc") -> Goto("VTMenu")
      [] k = Key("Down") -> Select((selected + 1) % 3)
      [] k = Key("Up") -> Select((selected + 3 - 1) % 3)
      [] k = Key("Enter") ->
            CASE selected = 0 -> \E o \in CaptureOutcomes : ShowOutput(chvt(Lit("7"), o))
              [] selected = 1 -> \E o \in CaptureOutcomes : ShowOutput(chvt(Lit("8"), o))
              [] selected = 2 -> Goto("VTMenu")
              [] OTHER -> Stay
      [] OTHER -> Stay

\* Screen::Podman
OnPodman(k) ==
    CASE k = Key("Esc") -> Goto("Main")
      [] k = Key("Down") -> Select((selected + 1) % 5)
      [] k = Key("Up") -> Select((selected + 5 - 1) % 5)
      [] k = Key("Enter") ->
            CASE selected = 0 -> \E o \in CaptureOutcomes : ShowOutput(podman_ps(o))
              [] selected = 1 -> Prompt("Start container (id or name)", "PodmanStart")
              [] selected = 2 -> Prompt("Stop container (id or name)", "PodmanStop")
              [] selected = 3 -> Prompt("Open shell in container (id or name)", "PodmanShell")
              [] selected = 4 -> Goto("Main")
              [] OTHER -> Stay
      [] OTHER -> Stay

\* Output handler that returns to Podman without message.clear()
OnOutput_KeepMessage(k) ==
    IF k = Key("Esc") \/ k = CharKey("q") \/ k = Key("Enter")
    THEN Set(Scr("Podman"), 0, message, input, input_origin, rawMode, <<>>, "draw")
    ELSE Stay

\* Screen::Output
OnOutput(k) ==
    IF k = Key("Esc") \/ k = CharKey("q") \/ k = Key("Enter")
    THEN Set(Scr("Podman"), 0, <<>>, input, input_origin, rawMode, <<>>, "draw")
    ELSE Stay

\* Esc on Input that ignores the origin
InputEsc_AlwaysPodman(origin) == Goto("Podman")

\* Esc on Input that empties the buffer and stays on the prompt
InputEsc_ClearOnly(origin) ==
    Set(screen, 0, message, <<>>, input_origin, rawMode, <<>>, "draw")

\* Screen::Input, KeyCode::Esc
InputEsc(origin) ==
    IF origin = "ChangeVT" THEN Goto("VTMenu") ELSE Goto("Podman")

\* the message shown after podman_shell returned
ShellMessage(r, val) ==
    IF r.result.ok THEN <<"Exited shell for ">> \o val ELSE r.result.err

\* Screen::Input, KeyCode::Enter
InputEnter(origin) ==
    LET val == Trim(input)
        Done(msg, raw, tr) == Set(Scr("Output"), selected, msg, <<>>, input_origin, raw, tr, "draw")
    IN  IF val = <<>>
        THEN Done(Lit("Empty input"), rawMode, <<>>)
        ELSE CASE origin = "ChangeVT" ->
                    \E o \in CaptureOutcomes :
                        LET r == chvt(val, o) IN Done(r.msg, rawMode, r.events)
               [] origin = "PodmanStart" ->
                    \E o \in CaptureOutcomes :
                        LET r == podman_start(val, o) IN Done(r.msg, rawMode, r.events)
               [] origin = "PodmanStop" ->
                    \E o \in CaptureOutcomes :
                        LET r == podman_stop(val, o) IN Done(r.msg, rawMode, r.events)
               [] origin = "PodmanShell" ->
                    \E o1, o2 \in InteractiveOutcomes :
                        LET r == podman_shell(val, rawMode, o1, o2)
                        IN  Done(ShellMessage(r, val), r.raw, r.events)

\* Screen::Input { origin, .. }
OnInput(k) ==
    LET origin_clone == screen.origin
    IN  CASE k = Key("Esc") -> InputEsc(origin_clone)
          [] k = Key("Enter") -> InputEnter(origin_clone)
          [] k = Key("Backspace") ->
                Set(screen, selected, message, Pop(input), input_origin, rawMode, <<>>, "draw")
          [] k.code = "Char" ->
                /\ Len(input) < MaxInput
                /\ Set(screen, selected, message, Append(input, k.ch), input_origin,
                       rawMode, <<>>, "draw")
          [] OTHER -> Stay

\* Event::Key(key) => match &mut screen
HandleKey(k) ==
    CASE screen.tag = "Main" -> OnMain(k)
      [] screen.tag = "VTMenu" -> OnVTMenu(k)
      [] screen.tag = "Desktops" -> OnDesktops(k)
      [] screen.tag = "Podman" -> OnPodman(k)
      [] screen.tag = "Output" -> OnOutput(k)
      [] screen.tag = "Input" -> OnInput(k)

----------------------------------------------------------------------------
(* main(): terminal set-up, the loop, terminal restoration *)

Init ==
    /\ pc = "enter"
    /\ screen = Scr("Main")
    /\ selected = 0
    /\ message = <<>>
    /\ input = <<>>
    /\ input_origin = "ChangeVT"
    /\ event = NoEvent
    /\ from = "None"
    /\ rawMode = FALSE
    /\ altScreen = FALSE
    /\ mouseCapture = FALSE
    /\ cursorHidden = FALSE
    /\ entered = FALSE
    /\ leaveRan = FALSE
    /\ result = "running"
    /\ trace = <<>>

\* enable_raw_mode()?; execute!(EnterAlternateScreen, EnableMouseCapture)?; Terminal::new()?
EnterTerminal ==
    /\ pc = "enter"
    /\ \E fail \in {"none", "raw", "execute", "terminal"} :
        /\ rawMode' = (fail # "raw")
        /\ altScreen' = (fail \in {"none", "terminal"})
        /\ mouseCapture' = (fail \in {"none", "terminal"})
        /\ entered' = (fail = "none")
        /\ pc' = IF fail = "none" THEN "draw" ELSE "exited"
        /\ result' = IF fail = "none" THEN "running" ELSE "Err(enter)"
    /\ UNCHANGED <<screen, selected, message, input, input_origin, event, from,
                   cursorHidden, leaveRan, trace>>

\* terminal.draw(...)?
Draw ==
    /\ pc = "draw"
    /\ \E ok \in BOOLEAN :
        /\ pc' = IF ok THEN "poll" ELSE "exited"
        /\ result' = IF ok THEN result ELSE "Err(draw)"
        /\ cursorHidden' = (ok \/ cursorHidden)
    /\ UNCHANGED <<screen, selected, message, input, input_origin, event, from, rawMode,
                   altScreen, mouseCapture, entered, leaveRan, trace>>

\* event::poll(200ms)?
Poll ==
    /\ pc = "poll"
    /\ \E r \in {"ready", "timeout", "error"} :
        /\ pc' = CASE r = "ready" -> "read" [] r = "timeout" -> "draw" [] OTHER -> "exited"
        /\ result' = IF r = "error" THEN "Err(poll)" ELSE result
    /\ UNCHANGED <<screen, selected, message, input, input_origin, event, from, rawMode,
                   altScreen, mouseCapture, cursorHidden, entered, leaveRan, trace>>

\* event::read()? returned Event::Key(key)
ReadKey ==
    /\ pc = "read"
    /\ \E k \in KeyEvents :
        /\ event' = k
        /\ from' = screen.tag
        /\ HandleKey(k)
    /\ UNCHANGED <<altScreen, mouseCapture, cursorHidden, entered, leaveRan, result>>

\* event::read()? returned a mouse, resize, focus or paste event
ReadOther ==
    /\ pc = "read"
    /\ \E e \in OtherEvents : event' = e
    /\ from' = screen.tag
    /\ Stay
    /\ UNCHANGED <<altScreen, mouseCapture, cursorHidden, entered, leaveRan, result>>

\* event::read()? returned Err
ReadError ==
    /\ pc = "read"
    /\ pc' = "exited"
    /\ result' = "Err(read)"
    /\ UNCHANGED <<screen, selected, message, input, input_origin, event, from, rawMode,
                   altScreen, mouseCapture, cursorHidden, entered, leaveRan, trace>>

\* disable_raw_mode()?; execute!(LeaveAlternateScreen, DisableMouseCapture)?; show_cursor()?
Leave ==
    /\ pc = "leave"
    /\ leaveRan' = TRUE
    /\ pc' = "exited"
    /\ \E fail \in {"none", "raw", "execute", "cursor"} :
        /\ rawMode' = IF fail = "raw" THEN rawMode ELSE FALSE
        /\ altScreen' = IF fail \in {"raw", "execute"} THEN altScreen ELSE FALSE
        /\ mouseCapture' = IF fail \in {"raw", "execute"} THEN mouseCapture ELSE FALSE
        /\ cursorHidden' = IF fail = "none" THEN FALSE ELSE cursorHidden
        /\ result' = IF fail = "none" THEN "Ok" ELSE "Err(leave)"
    /\ UNCHANGED <<screen, selected, message, input, input_origin, event, from, entered, trace>>

\* the process exit code once main() has returned
ExitCode == IF result = "Ok" THEN 0 ELSE 1

Next ==
    \/ EnterTerminal
    \/ Draw
    \/ Poll
    \/ ReadKey
    \/ ReadOther
    \/ ReadError
    \/ Leave

Spec == Init /\ [][Next]_vars

TypeOK ==
    /\ pc \in {"enter", "draw", "poll", "read", "leave", "exited"}
    /\ screen.tag \in ListScreens \cup {"Output", "Input"}
    /\ selected \in 0..4
    /\ Len(input) <= MaxInput
    /\ input_origin \in Origins
    /\ rawMode \in BOOLEAN
    /\ result \in {"running", "Ok", "Err(enter)", "Err(draw)", "Err(poll)", "Err(read)", "Err(leave)"}

----------------------------------------------------------------------------
(* Properties *)

\* the step handles the event ev: it was read and matched on the current screen
Handled(ev) == pc = "read" /\ pc' \in {"draw", "leave"} /\ event' = ev

HandledKey == pc = "read" /\ pc' \in {"draw", "leave"} /\ event'.type = "Key"

C1_Valid ==
    screen.tag \in ListScreens => (0 <= selected /\ selected < ItemCount(screen.tag))

C1_Move ==
    screen.tag \in ListScreens =>
        /\ Handled(Key("Down")) =>
              (screen' = screen /\ selected' = (selected + 1) % ItemCount(screen.tag))
        /\ Handled(Key("Up")) =>
              /\ screen' = screen
              /\ selected' = IF selected = 0 THEN ItemCount(screen.tag) - 1 ELSE selected - 1

\* C1: on a list screen selected is always a valid index of that screen's
\* item list; Down moves to (selected + 1) mod item_count and Up to
\* (selected - 1) mod item_count, wrapping at both ends.
C1_SelectedIndex == [](C1_Valid) /\ [][C1_Move]_vars

\* Up pressed on the first Podman item wrapped to the last one
C1_Witness ==
    /\ from = "Podman"
    /\ event = Key("Up")
    /\ screen.tag = "Podman"
    /\ selected = 4
    /\ pc = "draw"

\* C2: input_buffer is non-empty only while the current screen is Input.
C2_BufferOnlyOnInput == input # <<>> => screen.tag = "Input"

C3_Step ==
    (HandledKey /\ screen.tag = "Output") =>
        IF event' \in {Key("Esc"), CharKey("q"), Key("Enter")}
        THEN screen' = Scr("Podman") /\ selected' = 0 /\ message' = <<>>
        ELSE UNCHANGED <<screen, selected, message, input, input_origin, rawMode>>

\* C3: on Output each of Esc, q and Enter leads to Podman with selected 0
\* and an empty message, whatever produced the output; any other key
\* leaves the state unchanged.
C3_OutputReturns == [][C3_Step]_vars

\* q was pressed on Output and the Podman menu is shown
C3_Witness ==
    /\ from = "Output"
    /\ event = CharKey("q")
    /\ screen = Scr("Podman")
    /\ selected = 0
    /\ message = <<>>
    /\ input_origin = "ChangeVT"
    /\ pc = "draw"

\* the parent of a screen other than Main
Parent(sc) ==
    CASE sc.tag = "VTMenu" -> "Main"
      [] sc.tag = "Desktops" -> "VTMenu"
      [] sc.tag = "Podman" -> "Main"
      [] sc.tag = "Output" -> "Podman"
      [] sc.tag = "Input" -> IF sc.origin = "ChangeVT" THEN "VTMenu" ELSE "Podman"

C4_Step ==
    (Handled(Key("Esc")) /\ screen.tag # "Main") =>
        /\ screen' = Scr(Parent(screen))
        /\ selected' = 0
        /\ trace' = <<>>

\* C4: Esc on a screen other than Main goes to that screen's parent with
\* selected 0 and runs no command; the parent of Input is VTMenu for origin
\* ChangeVT and Podman for the three Podman origins.
C4_EscToParent == [][C4_Step]_vars

\* a ChangeVT prompt with typed text was cancelled and VTMenu is shown
C4_Witness ==
    /\ from = "Input"
    /\ event = Key("Esc")
    /\ screen = Scr("VTMenu")
    /\ selected = 0
    /\ input # <<>>
    /\ pc = "draw"

C5_Step ==
    (Handled(Key("Enter")) /\ screen.tag = "Input"
        /\ \A i \in DOMAIN input : input[i] \in Whitespace) =>
        /\ trace' = <<>>
        /\ screen' = Scr("Output")
        /\ message' = Lit("Empty input")

\* C5: Enter on Input with an empty or whitespace-only buffer runs no
\* subprocess and shows Output with the message "Empty input", for every
\* origin.
C5_EmptyInput == [][C5_Step]_vars

\* a blank shell prompt was submitted: no call was made, raw mode untouched
C5_Witness ==
    /\ from = "Input"
    /\ event = Key("Enter")
    /\ screen = Scr("Output")
    /\ message = Lit("Empty input")
    /\ input_origin = "PodmanShell"
    /\ trace = <<>>
    /\ pc = "draw"

\* the captured command line bound to an origin
BoundArgv(origin, v) ==
    CASE origin = "ChangeVT" -> <<Lit("sudo"), Lit("chvt"), v>>
      [] origin = "PodmanStart" -> <<Lit("podman"), Lit("start"), v>>
      [] origin = "PodmanStop" -> <<Lit("podman"), Lit("stop"), v>>

ShellArgv(v) ==
    {<<Lit("podman"), Lit("exec"), Lit("-it"), v, Lit(sh)>> : sh \in {"/bin/sh", "/bin/bash"}}

C6_Step ==
    (Handled(Key("Enter")) /\ screen.tag = "Input" /\ Trim(input) # <<>>) =>
        LET v == Trim(input)
            o == screen.origin
        IN  /\ screen' = Scr("Output")
            /\ input' = <<>>
            /\ o \in Origins
            /\ o # "PodmanShell" =>
                  /\ Len(trace') = 1
                  /\ trace'[1].op = "capture"
                  /\ trace'[1].argv = BoundArgv(o, v)
                  /\ message' = trace'[1].res
            /\ o = "PodmanShell" =>
                  /\ trace' # <<>>
                  /\ trace'[1].op = "disable_raw"
                  /\ \A i \in DOMAIN trace' :
                        /\ trace'[i].op # "capture"
                        /\ trace'[i].op = "interactive" => trace'[i].argv \in ShellArgv(v)
                  /\ \/ message' = <<"Exited shell for ">> \o v
                     \/ \E i \in DOMAIN trace' :
                            /\ ~trace'[i].ok
                            /\ trace'[i].res \in {SuspendErr, SpawnErr, ResumeErr}
                            /\ message' = trace'[i].res

\* C6: Enter on Input with origin O and non-blank trimmed value v runs the
\* action bound to O with argument v (sudo chvt v, podman start v, podman
\* stop v, interactive shell in v), stores its result as the message, shows
\* Output and clears the buffer.
C6_Dispatch == [][C6_Step]_vars

\* "podman stop" was run on the trimmed text of a padded buffer
C6_Witness ==
    /\ from = "Input"
    /\ event = Key("Enter")
    /\ screen = Scr("Output")
    /\ input = <<>>
    /\ Len(trace) = 1
    /\ trace[1].argv = <<Lit("podman"), Lit("stop"), <<"a", " ", "q">>>>
    /\ message = trace[1].res
    /\ message = <<"e">>
    /\ pc = "draw"

IsSh(e) == e.op = "interactive" /\ e.argv[5] = Lit("/bin/sh")

IsBash(e) == e.op = "interactive" /\ e.argv[5] = Lit("/bin/bash")

IsRawCall(e) == e.op \in {"disable_raw", "enable_raw"}

IsResume(e) == e.op = "enable_raw"

\* C7: podman_shell tries /bin/sh first; when that attempt does not complete
\* successfully it tries /bin/bash once; an error is reported only when both
\* attempts failed; /bin/bash is never tried after a successful /bin/sh.
\* (Stated for the runs in which every raw-mode call succeeded.)
C7_ShellFallback ==
    LET sh   == SelectSeq(trace, IsSh)
        bash == SelectSeq(trace, IsBash)
        raws == SelectSeq(trace, IsRawCall)
    IN  (sh # <<>> /\ \A i \in DOMAIN raws : raws[i].ok) =>
            /\ Len(sh) = 1
            /\ trace[2] = sh[1]
            /\ sh[1].ok => bash = <<>>
            /\ ~sh[1].ok => Len(bash) = 1
            /\ message # <<"Exited shell for ">> \o sh[1].argv[4] =>
                  (~sh[1].ok /\ Len(bash) = 1 /\ ~bash[1].ok)

C8_Protocol ==
    \A i \in DOMAIN trace :
        /\ (trace[i].op = "disable_raw" /\ trace[i].ok) =>
              /\ i + 2 <= Len(trace)
              /\ trace[i + 1].op = "interactive"
              /\ trace[i + 2].op = "enable_raw"
        /\ trace[i].op = "interactive" =>
              /\ i > 1 /\ i < Len(trace)
              /\ trace[i - 1].op = "disable_raw" /\ trace[i - 1].ok
              /\ trace[i + 1].op = "enable_raw"
        /\ trace[i].op = "enable_raw" =>
              /\ i > 2
              /\ trace[i - 1].op = "interactive"

C8_RawWhileUI ==
    LET resumes == SelectSeq(trace, IsResume)
    IN  (pc \in {"draw", "poll", "read"} /\ resumes # <<>> /\ resumes[Len(resumes)].ok)
            => rawMode

C8_RawFrame ==
    rawMode' # rawMode =>
        \/ pc \in {"enter", "leave"}
        \/ \E i \in DOMAIN trace' : IsRawCall(trace'[i])

\* C8: in every run_interactive whose suspend succeeded, resume is attempted
\* exactly once, after the child and before the return; a child runs only
\* between a successful suspend and the resume; while the UI draws, polls or
\* reads after a successful resume raw mode is enabled, and nothing but the
\* handoff (and the set-up and restoration of main) changes raw mode.
C8_Handoff == [](C8_Protocol /\ C8_RawWhileUI) /\ [][C8_RawFrame]_vars

\* /bin/sh could not be spawned, /bin/bash ran, and the UI polls in raw mode
C8_Witness ==
    /\ Len(trace) = 6
    /\ trace[1].op = "disable_raw" /\ trace[1].ok
    /\ trace[2].op = "interactive" /\ trace[2].res = SpawnErr
    /\ trace[3].op = "enable_raw" /\ trace[3].ok
    /\ trace[5].op = "interactive" /\ trace[5].ok
    /\ trace[6].op = "enable_raw" /\ trace[6].ok
    /\ rawMode
    /\ pc = "poll"

\* C9: a failed raw-mode call of the interactive handoff is fatal: it is the
\* last call made, the process exits with an error, and the failure is not
\* shown as a message on the Output screen.
C9_RawFailureFatal ==
    \A i \in DOMAIN trace :
        (IsRawCall(trace[i]) /\ ~trace[i].ok) =>
            /\ i = Len(trace)
            /\ pc = "exited"
            /\ result # "Ok"
            /\ message # trace[i].res

\* C10: whenever the process has exited after the terminal set-up succeeded,
\* the restoration at the end of main was run.
C10_LeaveOnEveryExit == (pc = "exited" /\ entered) => leaveRan

\* the keys that end the loop on the Main screen
QuitsOnMain(ev, sel) ==
    \/ ev = Key("Esc")
    \/ ev = CharKey("q")
    \/ ev = Key("Enter") /\ sel = 2

C11_Step ==
    /\ (HandledKey /\ screen.tag = "Main" /\ event' \in {Key("Esc"), CharKey("q")})
          => pc' = "leave"
    /\ (pc # "leave" /\ pc' = "leave")
          => (HandledKey /\ screen.tag = "Main" /\ QuitsOnMain(event', selected))
    /\ pc = "leave" => pc' = "exited"

\* C11 as stated: Esc or q on Main ends the loop for every selected index,
\* as does Enter on Quit; no key ends it on another screen; and the process
\* then exits with code 0.
C11_QuitExitsZero ==
    [][C11_Step]_vars /\ []((pc = "exited" /\ leaveRan) => ExitCode = 0)

\* C11 as amended: the same, and the process then exits with code 0 exactly
\* when the restoration calls after the loop succeed, leaving raw mode, the
\* alternate screen and mouse capture off and the cursor shown; a failing
\* restoration call ends the process with that error.
C11_Quit ==
    /\ [][C11_Step]_vars
    /\ []((pc = "exited" /\ leaveRan) =>
            /\ result \in {"Ok", "Err(leave)"}
            /\ ExitCode = 0 =>
                  (~rawMode /\ ~altScreen /\ ~mouseCapture /\ ~cursorHidden))
    /\ []((pc = "exited" /\ ExitCode = 0) => leaveRan)

\* q was pressed on Main with the last item selected and the process exited 0
C11_Witness ==
    /\ pc = "exited"
    /\ from = "Main"
    /\ event = CharKey("q")
    /\ selected = 2
    /\ leaveRan
    /\ ExitCode = 0

\* the run_interactive call that spawned trace[i] returned Ok: podman_shell
\* made no further attempt and main reported the end of the shell session
ReturnedOk(i) ==
    /\ \A j \in DOMAIN trace : j > i => trace[j].op # "disable_raw"
    /\ message = <<"Exited shell for ">> \o trace[i].argv[4]

\* C12: run_interactive returns an error whenever the child could not be
\* spawned or exited with failure; it returns Ok only when the child ran and
\* exited successfully.
C12_InteractiveResult ==
    \A i \in DOMAIN trace :
        trace[i].op = "interactive" => (ReturnedOk(i) => trace[i].ok)

\* the text t occurs in the message msg
Names(msg, t) ==
    \E i \in 1..(Len(msg) - Len(t) + 1) : SubSeq(msg, i, i + Len(t) - 1) = t

NonEmpty(t) == t # <<>>

NotBlank(t) == \E i \in DOMAIN t : t[i] \notin Whitespace

\* the message the claim gives for the captured command e, HasText deciding
\* when stderr is the message
C13_Message(msg, e, HasText(_)) ==
    LET o == e.out
    IN  IF ~o.spawned
        THEN Names(msg, e.argv[1]) /\ Names(msg, Lit(o.err))
        ELSE IF o.success
        THEN msg = o.stdout
        ELSE IF HasText(o.stderr)
        THEN msg = o.stderr
        ELSE /\ \A i \in DOMAIN e.argv : Names(msg, EscapeDebug(e.argv[i]))
             /\ Names(msg, Lit(o.status))

C13_Step(HasText(_)) ==
    (pc = "read" /\ pc' # "exited" /\ \E i \in DOMAIN trace' : trace'[i].op = "capture") =>
        /\ pc' = "draw"
        /\ result' = "running"
        /\ screen' = Scr("Output")
        /\ Len(trace') = 1
        /\ C13_Message(message', trace'[1], HasText)

\* C13 as stated: after every captured command the loop continues on Output
\* with a message: stdout on success; on a non-zero exit stderr if it is
\* non-empty, else a text naming command, arguments and exit status; on a
\* spawn failure a text naming the command and the OS error.
C13_CapturedNonEmpty == [][C13_Step(NonEmpty)]_vars

\* C13 as amended: the same, with stderr shown when it has a character that
\* is not whitespace, and the synthesized text when stderr is empty or
\* whitespace only.
C13_Captured == [][C13_Step(NotBlank)]_vars

\* podman stop exited non-zero with a blank stderr: the synthesized text is shown
C13_Witness ==
    /\ pc = "draw"
    /\ screen = Scr("Output")
    /\ Len(trace) = 1
    /\ trace[1].op = "capture"
    /\ trace[1].argv[2] = Lit("stop")
    /\ trace[1].out.spawned /\ ~trace[1].out.success
    /\ trace[1].out.stderr = <<" ">>
    /\ Names(message, Lit("exit status: 1"))
    /\ Names(message, trace[1].argv[3])

C14_Step ==
    /\ (Handled(Key("Down")) /\ screen = Scr("Main") /\ selected = 0) =>
          (screen' = Scr("Main") /\ selected' = 1)
    /\ (Handled(Key("Enter")) /\ screen = Scr("Main") /\ selected = 1) =>
          (screen' = Scr("Podman") /\ selected' = 0)
    /\ (Handled(Key("Enter")) /\ screen = Scr("Podman") /\ selected = 0) =>
          /\ screen' = Scr("Output")
          /\ Len(trace') = 1
          /\ trace'[1].op = "capture"
          /\ trace'[1].argv = <<Lit("podman"), Lit("ps"), Lit("-a"), Lit("--format"),
                                Lit("table {{.ID}}\t{{.Names}}\t{{.Status}}")>>
          /\ message' = trace'[1].res
          /\ (trace'[1].out.spawned /\ trace'[1].out.success) =>
                message' = trace'[1].out.stdout

\* C14: the program starts on Main with index 0; there Down selects item 1,
\* Enter on item 1 shows Podman with index 0, and Enter on Podman item 0
\* runs "podman ps -a --format ..." exactly once and shows Output with that
\* command's captured output as the message.
C14_ListContainers ==
    /\ [](pc = "enter" => (screen = Scr("Main") /\ selected = 0 /\ message = <<>>))
    /\ [][C14_Step]_vars

\* podman ps succeeded and its stdout is shown
C14_Witness ==
    /\ from = "Podman"
    /\ event = Key("Enter")
    /\ screen = Scr("Output")
    /\ selected = 0
    /\ Len(trace) = 1
    /\ trace[1].argv[2] = Lit("ps")
    /\ trace[1].out.success
    /\ message = <<"o">>
    /\ input_origin = "ChangeVT"
    /\ pc = "draw"

C16_Shape ==
    LET sp == Spawns(trace)
    IN  /\ Len(sp) <= 2
        /\ \A i \in DOMAIN sp : sp[i].op = "capture" => Len(sp) = 1
        /\ \A i \in DOMAIN sp : sp[i].op = "interactive" => (IsSh(sp[i]) \/ IsBash(sp[i]))
        /\ Len(sp) = 2 => (IsSh(sp[1]) /\ IsBash(sp[2]))

C16_Step ==
    /\ trace' # trace => (pc = "read" /\ pc' \in {"draw", "leave"})
    /\ (pc = "read" /\ pc' \in {"draw", "leave"} /\ Spawns(trace') # <<>>) =>
          /\ event' = Key("Enter")
          /\ \/ screen.tag = "Desktops" /\ selected \in {0, 1}
             \/ screen.tag = "Podman" /\ selected = 0
             \/ screen.tag = "Input" /\ NotBlank(input)

\* C16: one key event spawns at most one captured subprocess, or at most two
\* interactive ones, the /bin/sh child (if that attempt got to spawn one)
\* followed by at most one /bin/bash child; only Enter on Desktops items 0-1, on Podman item 0 and on Input
\* with non-blank content spawns anything.
C16_NoRetry == [](C16_Shape) /\ [][C16_Step]_vars

\* /bin/sh and then /bin/bash could not be spawned: two attempts, no third
C16_Witness ==
    /\ from = "Input"
    /\ event = Key("Enter")
    /\ Len(Spawns(trace)) = 2
    /\ Spawns(trace)[1].res = SpawnErr
    /\ Spawns(trace)[2].res = SpawnErr
    /\ message = SpawnErr
    /\ pc = "draw"

\* the number of Esc presses that separate a screen from Main
EscRank(tag) ==
    CASE tag = "Main" -> 0
      [] tag \in {"VTMenu", "Podman"} -> 1
      [] tag \in {"Desktops", "Output", "Input"} -> 2

C17_Step ==
    /\ Handled(Key("Esc")) =>
          /\ trace' = <<>>
          /\ IF screen.tag = "Main"
             THEN pc' = "leave"
             ELSE pc' = "draw" /\ EscRank(screen'.tag) < EscRank(screen.tag)
    /\ pc = "leave" => pc' = "exited"

\* C17: there is no trap state: on every screen but Main a handled Esc runs
\* no command and moves to a screen strictly closer to Main, no screen is
\* more than two Esc presses away from Main, and Esc on Main ends the loop,
\* after which the process exits.
C17_NoTrap ==
    /\ [](EscRank(screen.tag) \in 0..2)
    /\ [](pc = "read" => ENABLED (ReadKey /\ event' = Key("Esc")))
    /\ [][C17_Step]_vars

\* Esc ended the loop on Main after a prompt with typed text was cancelled
C17_Witness ==
    /\ pc = "leave"
    /\ from = "Main"
    /\ event = Key("Esc")
    /\ input # <<>>
    /\ input_origin = "PodmanShell"

C18_Step ==
    /\ message' # message =>
          \/ screen.tag # "Output" /\ screen'.tag = "Output"
          \/ screen.tag = "Output" /\ screen'.tag # "Output" /\ message' = <<>>
    /\ (screen.tag = "Output" /\ screen'.tag # "Output") =>
          (screen' = Scr("Podman") /\ message' = <<>>)

\* C18: the message is non-empty only on the Output screen; it is written
\* only by steps that enter Output and cleared by the one step that leaves
\* Output.
C18_MessageOnlyOnOutput ==
    [](message # <<>> => screen.tag = "Output") /\ [][C18_Step]_vars

\* Output, reached after a Stop prompt, was left with Enter: no message on Podman
C18_Witness ==
    /\ from = "Output"
    /\ event = Key("Enter")
    /\ screen = Scr("Podman")
    /\ message = <<>>
    /\ selected = 0
    /\ input_origin = "PodmanStop"
    /\ pc = "draw"

\* the origin of the prompt a menu item opens
ItemOrigin(tag, sel) ==
    CASE tag = "VTMenu" /\ sel = 0 -> "ChangeVT"
      [] tag = "Podman" /\ sel = 1 -> "PodmanStart"
      [] tag = "Podman" /\ sel = 2 -> "PodmanStop"
      [] tag = "Podman" /\ sel = 3 -> "PodmanShell"
      [] OTHER -> "None"

C19_Step ==
    /\ (screen.tag # "Input" /\ screen'.tag = "Input") =>
          /\ Handled(Key("Enter"))
          /\ input' = <<>>
          /\ screen'.origin = ItemOrigin(screen.tag, selected)
          /\ screen'.origin \in Origins
    /\ (screen.tag = "Input" /\ screen'.tag = "Input") =>
          /\ screen' = screen
          /\ input' # input =>
                \/ event'.code = "Char" /\ input' = Append(input, event'.ch)
                \/ event' = Key("Backspace") /\ input' = Pop(input)

\* C19: every step that enters Input starts with an empty buffer and the
\* Input screen carries the origin of the menu item just selected; while the
\* prompt is shown the buffer changes only by the typed character or by
\* Backspace, so text left by a cancelled prompt is never shown or submitted.
C19_FreshPrompt ==
    /\ [](screen.tag = "Input" => screen.origin = input_origin)
    /\ [][C19_Step]_vars

\* "Stop container" was just selected: the prompt is empty, origin PodmanStop
C19_Witness ==
    /\ from = "Podman"
    /\ event = Key("Enter")
    /\ selected = 2
    /\ screen.tag = "Input"
    /\ screen.origin = "PodmanStop"
    /\ input_origin = "PodmanStop"
    /\ input = <<>>
    /\ pc = "draw"

----------------------------------------------------------------------------
(* chvt on its own: one call with an arbitrary argument.  The argument is  *)
(* held in input, the returned String in message and the calls in trace.   *)

ChvtChars == {"7", " ", "\t"}

ChvtArgs == UNION {[1..n -> ChvtChars] : n \in 0..MaxInput}

InitChvt ==
    /\ pc = "chvt_call"
    /\ input \in ChvtArgs
    /\ screen = Scr("Main")
    /\ selected = 0
    /\ message = <<>>
    /\ input_origin = "ChangeVT"
    /\ event = NoEvent
    /\ from = "None"
    /\ rawMode = TRUE
    /\ altScreen = TRUE
    /\ mouseCapture = TRUE
    /\ cursorHidden = FALSE
    /\ entered = TRUE
    /\ leaveRan = FALSE
    /\ result = "running"
    /\ trace = <<>>

CallChvt ==
    /\ pc = "chvt_call"
    /\ \E o \in CaptureOutcomes :
        LET r == chvt(input, o)
        IN  /\ message' = r.msg
            /\ trace' = r.events
    /\ pc' = "chvt_ret"
    /\ UNCHANGED <<screen, selected, input, input_origin, event, from, rawMode, altScreen,
                   mouseCapture, cursorHidden, entered, leaveRan, result>>

NextChvt == CallChvt

SpecChvt == InitChvt /\ [][NextChvt]_vars

\* C15: chvt with an empty or whitespace-only argument returns "empty VT"
\* and spawns nothing; with any other argument it spawns exactly one
\* captured "sudo chvt <vt>", the argument passed as given.
C15_Chvt ==
    pc = "chvt_ret" =>
        IF \A i \in DOMAIN input : input[i] \in Whitespace
        THEN message = Lit("empty VT") /\ trace = <<>>
        ELSE /\ Len(trace) = 1
             /\ trace[1].op = "capture"
             /\ trace[1].argv = <<Lit("sudo"), Lit("chvt"), input>>

\* chvt returned "empty VT" for an argument of a space and a tab
C15_Witness ==
    /\ pc = "chvt_ret"
    /\ input = <<" ", "\t">>
    /\ message = Lit("empty VT")
    /\ trace = <<>>

====
